---- MODULE Spec2Model ----
(***************************************************************************)
(* A model of lib-instance-gen-go's app package (src/app/main.go): the     *)
(* With* constructors, SetupApp, Generate, the template renderer           *)
(* generateTemplate and the go.mod patch of WithGoVersion.                 *)
(*                                                                         *)
(* Text (file contents, error messages) is a sequence of string atoms;     *)
(* concatenating texts is \o.  A path is the sequence of its components;   *)
(* the empty sequence is Go's "" (no directory).  The disk is a function   *)
(* from the paths of the files that exist to their contents.               *)
(***************************************************************************)
EXTENDS Naturals, Sequences, FiniteSets, TLC

VARIABLES
    app,        \* the App value's identity: [binaryName, dir]
    settings,   \* App.settings, the map shared by every copy of the App
    pool,       \* the setupOp closures the caller holds, in construction order
    ops,        \* App.ops as stored by SetupApp
    given,      \* the list the caller passed to SetupApp (history)
    pc,         \* "build", "run", "done" or "panic"
    idx,        \* position of Generate's range loop, 1-based
    invoked,    \* the closures Generate has called so far, in call order, each with
                \* whether its call failed and the file-system call that failed
                \* during it (history)
    reported,   \* the error the closure called last returned, <<>> when nil (history)
    fs,         \* the disk
    fsStart,    \* the disk when the current Generate began (history)
    fsPrev,     \* the disk when the previous Generate ended (history)
    pcPrev,     \* how the previous Generate ended (history)
    fsBefore,   \* the disk before the call of the closure invoked last (history)
    written,    \* the paths the closures that returned nil wrote in this run (history)
    run,        \* number of the current Generate run, from 1
    panicVal,   \* the value Generate's caller sees panicking, <<>> when none
    raisedBy,   \* the function whose panic call raised panicVal, "none" when none
    handles     \* the output files open now, and the most that were open at once
                \* during this run (history)

vars == <<app, settings, pool, ops, given, pc, idx, invoked, reported, fs, fsStart,
          fsPrev, pcPrev, fsBefore, written, run, panicVal, raisedBy, handles>>

---------------------------------------------------------------------------
(* Bounds of the model. *)

MaxOps == 2
MaxRuns == 2
MaxManifest == 4

---------------------------------------------------------------------------
(* Constants and tables of main.go. *)

cgoEnabled == "CGOEnabled"
codeOwnersFileName == "CODEOWNERS"
dependencies == "dependencies"
goModFile == "go.mod"
goVersion == "GoVersion"
mkfilesSubDir == "Makefile"
templateBaseDir == "templates"
warning == "lib-instance-gen-go: File auto generated -- DO NOT EDIT!!!\n"

templateExts == [go |-> ".go.tpl", mkfile |-> ".tpl", toml |-> ".tpl", yml |-> ".yml.tpl"]

warnings ==
    (codeOwnersFileName :> ("# " \o warning))
    @@ [go |-> "// " \o warning, mkfile |-> "// " \o warning,
        toml |-> "# " \o warning, yml |-> "# " \o warning]

\* warnings[fileType] as Go evaluates it: the zero value "" for a missing key.
WarningOf(fileType) ==
    IF fileType \in DOMAIN warnings THEN warnings[fileType] ELSE ""

\* The files embedded under templates/ (go:embed all:templates).
templatesFS ==
    { <<templateBaseDir, "config.go.tpl">>,
      <<templateBaseDir, ".golangci.toml">>,
      <<templateBaseDir, "package", "config.go.tpl">>,
      <<templateBaseDir, "github_workflows", "linter.yml.tpl">>,
      <<templateBaseDir, "github_workflows", "test.yml.tpl">>,
      <<templateBaseDir, mkfilesSubDir, "Makefile.tpl">> }

\* templatesFS.ReadDir(dir): the names of the files directly under dir.
ReadDir(dir) ==
    { p[Len(p)] : p \in { q \in templatesFS : SubSeq(q, 1, Len(q) - 1) = dir } }

---------------------------------------------------------------------------
(* Paths. *)

\* A Go path string of at most one component, as a path.
PathOf(s) == IF s = "" \/ s = "." THEN <<>> ELSE <<s>>

\* path.Join: empty elements are ignored and the result is cleaned.
Join(p, q) == SelectSeq(p \o q, LAMBDA c : c # "" /\ c # ".")

\* A path as it is printed in a message.
RECURSIVE PathString(_)
PathString(p) ==
    IF p = <<>> THEN ""
    ELSE IF Len(p) = 1 THEN p[1]
    ELSE p[1] \o "/" \o PathString(Tail(p))

---------------------------------------------------------------------------
(* The disk and the environment's failures. *)

\* A disk with no file.
NoFiles == <<>>

\* The environment of one call of a setupOp: the file-system call (stage, path)
\* that fails during it, if any.
NoFault == [stage |-> "none", path |-> <<>>]

\* Whether the file-system call `stage` on `path` fails.
Fails(st, stage, path) == st.fault.stage = stage /\ st.fault.path = path

Exists(disk, path) == path \in DOMAIN disk

Put(disk, path, content) == (path :> content) @@ disk

\* The state a deferred function works on and hands back: the disk, the error
\* it returns (<<>> is nil), the panic it raised (<<>> is none) with the
\* function that raised it, the environment's failure, the files it holds
\* open and the most it held open at once.
StateOf(disk, f) ==
    [fs |-> disk, ret |-> <<>>, panic |-> <<>>, by |-> "none", fault |-> f,
     open |-> {}, peak |-> 0]

Max(m, n) == IF m >= n THEN m ELSE n

\* A successful os.OpenFile: one more file is open.
OpenHandle(st, path) ==
    [st EXCEPT !.open = @ \cup {path},
               !.peak = Max(@, Cardinality(st.open \cup {path}))]

\* file.Close(): the file is no longer open, whether Close reports an error or not.
CloseHandle(st, path) == [st EXCEPT !.open = @ \ {path}]

Panicking(st) == st.panic # <<>>

Panic(st, msg, who) == [st EXCEPT !.panic = msg, !.by = who]

Return(st, err) == [st EXCEPT !.ret = err]

---------------------------------------------------------------------------
(* The templates.  A value bundle (templateArgs) is a record of texts, each *)
(* <<>> at its zero value.                                                  *)

ZeroArgs ==
    [BinaryName |-> <<>>, BuildEnvArgs |-> <<>>, ConfigName |-> <<>>,
     Dependencies |-> <<>>, GoVersion |-> <<>>, Includes |-> <<>>,
     PackageName |-> <<>>]

\* templates/github_workflows/test.yml.tpl
TestYmlTpl(args) ==
    <<"name: tests\n", "go-version: \"">> \o args.GoVersion
        \o <<"\"\n", "go test -race ./...\n">>

\* templates/github_workflows/linter.yml.tpl
LinterYmlTpl(args) ==
    <<"name: golangci-lint\n", "go-version: ">> \o args.GoVersion
        \o <<"\n", "golangci-lint run\n">>

\* templates/Makefile/Makefile.tpl
MakefileTpl(args) ==
    <<".DEFAULT_GOAL=build\n", "build:\n", "\tgo fmt ./...\n", "\tgo vet ./...\n", "\t">>
        \o args.BuildEnvArgs \o <<"go build -o bin/">> \o args.BinaryName
        \o <<" app/*.go\n", "install:\n", "\tcp bin/">> \o args.BinaryName
        \o <<" /usr/local/sbin/">> \o args.BinaryName
        \o <<"\n", "golib-latest:\n", "\t">> \o args.Dependencies
        \o <<"go get -u github.com/skeletonkey/lib-core-go@latest\n",
             "\tgo get -u github.com/skeletonkey/lib-instance-gen-go@latest\n",
             "\tgo mod tidy\n", "app-init:\n", "\tgo generate\n">>

\* templates/package/config.go.tpl: the package's config stub.
PackageConfigTpl(args) ==
    <<"package ">> \o args.PackageName \o <<"\n", "config stub of package ">>
        \o args.PackageName \o <<"\n">>

\* templates/config.go.tpl: the application's config stub.
AppConfigTpl(args) ==
    <<"package main\n", "config element ">> \o args.ConfigName \o <<"\n">>

\* templates/.golangci.toml: no substitution.
GolangciTpl(args) == <<"[linters]\n">>

\* temp.Execute: the text the template at inputFileName renders for args.
Execute(inputFileName, args) ==
    CASE inputFileName = <<templateBaseDir, "github_workflows", "test.yml.tpl">>
            -> TestYmlTpl(args)
      [] inputFileName = <<templateBaseDir, "github_workflows", "linter.yml.tpl">>
            -> LinterYmlTpl(args)
      [] inputFileName = <<templateBaseDir, mkfilesSubDir, "Makefile.tpl">>
            -> MakefileTpl(args)
      [] inputFileName = <<templateBaseDir, "package", "config.go.tpl">>
            -> PackageConfigTpl(args)
      [] inputFileName = <<templateBaseDir, "config.go.tpl">>
            -> AppConfigTpl(args)
      [] inputFileName = <<templateBaseDir, ".golangci.toml">>
            -> GolangciTpl(args)

---------------------------------------------------------------------------
(* generateTemplate. *)

OSError == "input/output error"

\* The deferred f.Close() of generateTemplate: it runs on every exit and
\* panics when the close fails.
\* A close that is not deferred: a panic before it skips it.
CloseFileOnReturn(outputFileName, st) ==
    IF Panicking(st) THEN st ELSE CloseHandle(st, outputFileName)

CloseFile(outputFileName, st) ==
    IF Fails(st, "close", outputFileName)
    THEN Panic(CloseHandle(st, outputFileName),
               <<"error closing file (", PathString(outputFileName), "): ", OSError>>,
               "generateTemplate")
    ELSE CloseHandle(st, outputFileName)

\* An execute that writes the body over what the file holds.
ParseAndExecuteOverwriting(args, inputFileName, outputFileName, st) ==
    IF inputFileName \notin templatesFS
    THEN Panic(st, <<"template: pattern matches no files: ", PathString(inputFileName)>>,
               "generateTemplate")
    ELSE [st EXCEPT !.fs = Put(st.fs, outputFileName,
                                Execute(inputFileName, args.templateArgs))]

\* template.Must(template.ParseFS(templatesFS, inputFileName)) and temp.Execute.
ParseAndExecute(args, inputFileName, outputFileName, st) ==
    IF inputFileName \notin templatesFS
    THEN Panic(st, <<"template: pattern matches no files: ", PathString(inputFileName)>>,
               "generateTemplate")
    ELSE IF Fails(st, "execute", outputFileName)
    THEN Panic(st, <<"unable to execute template (", PathString(inputFileName), "): ",
                     OSError>>, "generateTemplate")
    ELSE [st EXCEPT !.fs = Put(st.fs, outputFileName,
                                st.fs[outputFileName]
                                    \o Execute(inputFileName, args.templateArgs))]

\* f.WriteString(warnings[args.fileType]) and what follows it.
WriteWarning(args, inputFileName, outputFileName, st) ==
    IF Fails(st, "header", outputFileName)
    THEN Panic(st, <<"unable to write warning to file (", PathString(outputFileName),
                     "): ", OSError>>, "generateTemplate")
    ELSE ParseAndExecute(args, inputFileName, outputFileName,
            [st EXCEPT !.fs = Put(st.fs, outputFileName,
                                  st.fs[outputFileName] \o <<WarningOf(args.fileType)>>)])

\* An open that keeps what the file already holds.
OpenAppend(disk, path) == Put(disk, path, IF Exists(disk, path) THEN disk[path] ELSE <<>>)

\* os.OpenFile(name, os.O_WRONLY|os.O_CREATE|os.O_TRUNC, newFilePermission)
OpenTrunc(disk, path) == Put(disk, path, <<>>)

\* A renderer that resolves the template before it opens the output file.
generateTemplateParseFirst(args, st) ==
    LET inputFileName ==
            Join(<<templateBaseDir>>, Join(PathOf(args.templateSubDir), <<args.templateName>>))
        outputFileName == Join(args.outputSubDir, <<args.outputName>>)
    IN  IF inputFileName \notin templatesFS
        THEN Panic(st, <<"template: pattern matches no files: ", PathString(inputFileName)>>,
                   "generateTemplate")
        ELSE CloseFile(outputFileName,
                WriteWarning(args, inputFileName, outputFileName,
                    OpenHandle([st EXCEPT !.fs = OpenTrunc(st.fs, outputFileName)],
                               outputFileName)))

generateTemplate(args, st) ==
    LET inputFileName ==
            Join(<<templateBaseDir>>, Join(PathOf(args.templateSubDir), <<args.templateName>>))
        outputFileName == Join(args.outputSubDir, <<args.outputName>>)
    IN  IF args.outputSubDir # <<>> /\ Fails(st, "mkdir", args.outputSubDir)
        THEN Panic(st, <<"unable to create directory structure (",
                         PathString(args.outputSubDir), "): ", OSError>>, "generateTemplate")
        ELSE IF Fails(st, "open", outputFileName)
        THEN Panic(st, <<"unable to create file (", PathString(outputFileName), "): ",
                         OSError>>, "generateTemplate")
        ELSE CloseFile(outputFileName,
                WriteWarning(args, inputFileName, outputFileName,
                    OpenHandle([st EXCEPT !.fs = OpenTrunc(st.fs, outputFileName)],
                               outputFileName)))

\* A run of generateTemplate calls in a loop: a panic ends the loop.
RECURSIVE RenderAll(_, _)
RenderAll(jobs, st) ==
    IF jobs = <<>> \/ Panicking(st) THEN st
    ELSE RenderAll(Tail(jobs), generateTemplate(Head(jobs), st))

---------------------------------------------------------------------------
(* The go.mod patch of WithGoVersion:                                       *)
(*   pattern (?m)$\s*go \d+\.\d+(\.\d+)?\s*$  replaced by "\n\ngo "+ver+"\n" *)
(* A manifest is a text whose atoms are "\n", " ", a declaration            *)
(* "go " \o v with v a version number, or other text free of white space.   *)

\* The strings \d+\.\d+(\.\d+)? matches whole, among those the model uses.
VersionNumbers == {"1.21", "1.22", "1.23", "1.21.5"}

\* go \d+\.\d+(\.\d+)?
IsGoDecl(atom) == atom \in {"go " \o v : v \in VersionNumbers}

\* \s
IsSpace(atom) == atom \in {"\n", " ", "\t"}

\* (?m)$ at the position before atom i: the end of the text or before a "\n".
AtLineEnd(s, i) == i = Len(s) + 1 \/ s[i] = "\n"

\* The index of the first atom from i on that is not white space (Len(s)+1 if none).
RECURSIVE SkipSpace(_, _)
SkipSpace(s, i) ==
    IF i > Len(s) \/ ~IsSpace(s[i]) THEN i ELSE SkipSpace(s, i + 1)

\* The greedy trailing \s*$ from i: the last position j, i <= j <= SkipSpace(s, i),
\* at which $ matches, or 0 when there is none.
TrailEnd(s, i) ==
    LET ends == { j \in i .. SkipSpace(s, i) : AtLineEnd(s, j) }
    IN  IF ends = {} THEN 0 ELSE CHOOSE j \in ends : \A k \in ends : k <= j

\* The match of the pattern that starts at position p: the position after it,
\* or 0 when the pattern does not match at p.  $ needs a "\n" at p, \s* runs to
\* the declaration, and the trailing \s* gives back until $ matches.
MatchEnd(s, p) ==
    IF p > Len(s) \/ s[p] # "\n" THEN 0
    ELSE LET d == SkipSpace(s, p)
         IN  IF d > Len(s) \/ ~IsGoDecl(s[d]) THEN 0 ELSE TrailEnd(s, d + 1)

\* pattern.ReplaceAll(data, repl) from position i on: matches are taken
\* leftmost first and do not overlap.
RECURSIVE ReplaceAllFrom(_, _, _)
ReplaceAllFrom(s, i, repl) ==
    IF i > Len(s) THEN <<>>
    ELSE IF MatchEnd(s, i) # 0
         THEN repl \o ReplaceAllFrom(s, MatchEnd(s, i), repl)
         ELSE <<s[i]>> \o ReplaceAllFrom(s, i + 1, repl)

\* []byte("\n\ngo "+ver+"\n")
Replacement(ver) == <<"\n", "\n", "go " \o ver, "\n">>

PatchGoMod(data, ver) == ReplaceAllFrom(data, 1, Replacement(ver))

---------------------------------------------------------------------------
(* The deferred functions: what each constructor's returned closure does    *)
(* when Generate calls it with the App value a on the state st.             *)

\* noOp(): func(_ App) error { return nil }
NoOpFn(a, st) == st

Job(fileType, outputName, outputSubDir, templateName, templateSubDir, templateArgs) ==
    [fileType |-> fileType, outputName |-> outputName, outputSubDir |-> outputSubDir,
     templateName |-> templateName, templateSubDir |-> templateSubDir,
     templateArgs |-> templateArgs]

\* A loop that stops after the first name.
PackageJobsOnce(packageNames, a) ==
    IF packageNames = <<>> THEN <<>>
    ELSE << Job("go", "config.go", Join(PathOf(a.dir), PathOf(Head(packageNames))),
                "config" \o templateExts["go"], "package",
                [ZeroArgs EXCEPT !.PackageName = <<Head(packageNames)>>]) >>

\* WithPackages: one package config per name, in the order given.
RECURSIVE PackageJobs(_, _)
PackageJobs(packageNames, a) ==
    IF packageNames = <<>> THEN <<>>
    ELSE << Job("go", "config.go", Join(PathOf(a.dir), PathOf(Head(packageNames))),
                "config" \o templateExts["go"], "package",
                [ZeroArgs EXCEPT !.PackageName = <<Head(packageNames)>>]) >>
            \o PackageJobs(Tail(packageNames), a)

WithPackagesFn(packageNames, a, st) == RenderAll(PackageJobs(packageNames, a), st)

\* WithConfig
WithConfigFn(a, st) ==
    generateTemplate(
        Job("go", "config.go", PathOf(a.dir), "config" \o templateExts["go"], "",
            [ZeroArgs EXCEPT !.ConfigName = <<a.dir>>]), st)

\* WithGithubWorkflows: the workflow files, then the lint configuration.
RECURSIVE WorkflowJobs(_, _)
WorkflowJobs(flows, tmplArgs) ==
    IF flows = <<>> THEN <<>>
    ELSE << Job("yml", Head(flows) \o ".yml", <<".github", "workflows">>,
                Head(flows) \o templateExts["yml"], "github_workflows", tmplArgs) >>
            \o WorkflowJobs(Tail(flows), tmplArgs)

\* A closure that renders the lint configuration whatever the workflows.
LinterJobsAlways(flows) ==
    << Job("toml", ".golangci.toml", <<>>, ".golangci.toml", "", ZeroArgs) >>

LinterJobs(flows) ==
    IF \E i \in 1 .. Len(flows) : flows[i] = "linter"
    THEN << Job("toml", ".golangci.toml", <<>>, ".golangci.toml", "", ZeroArgs) >>
    ELSE <<>>

MissingGoVersion == <<"no ", goVersion, " provided - please call WithGoVersion">>

\* A closure that hands the missing version to Generate as an error.
WithGithubWorkflowsFnReturning(flows, a, st) ==
    IF goVersion \notin DOMAIN a.settings
    THEN Return(st, MissingGoVersion)
    ELSE RenderAll(
            WorkflowJobs(flows, [ZeroArgs EXCEPT !.GoVersion = <<a.settings[goVersion]>>])
                \o LinterJobs(flows), st)

\* A closure that renders with an empty version when none was recorded.
WithGithubWorkflowsFnDefaulting(flows, a, st) ==
    RenderAll(
        WorkflowJobs(flows,
            [ZeroArgs EXCEPT !.GoVersion = IF goVersion \in DOMAIN a.settings
                                           THEN <<a.settings[goVersion]>> ELSE <<"">>])
            \o LinterJobs(flows), st)

WithGithubWorkflowsFn(flows, a, st) ==
    IF goVersion \notin DOMAIN a.settings
    THEN Panic(st, MissingGoVersion, "WithGithubWorkflows")
    ELSE RenderAll(
            WorkflowJobs(flows, [ZeroArgs EXCEPT !.GoVersion = <<a.settings[goVersion]>>])
                \o LinterJobs(flows), st)

\* A closure that reports a stat that fails on a go.mod that exists.
WithGoVersionFnStatChecked(ver, a, st) ==
    IF ~Exists(st.fs, <<goModFile>>)
    THEN st
    ELSE IF Fails(st, "stat", <<goModFile>>)
    THEN Return(st, <<"unable to stat go.mod file (", goModFile, "): ", OSError>>)
    ELSE IF Fails(st, "read", <<goModFile>>)
    THEN Return(st, <<"unable to read go.mod file (", goModFile, "): ", OSError>>)
    ELSE IF Fails(st, "write", <<goModFile>>)
    THEN Return(st, <<"unable to write go.mod file (", goModFile, "): ", OSError>>)
    ELSE [st EXCEPT !.fs = Put(st.fs, <<goModFile>>, PatchGoMod(st.fs[<<goModFile>>], ver))]

\* A closure that writes a manifest when there is none.
WithGoVersionFnCreating(ver, a, st) ==
    IF ~Exists(st.fs, <<goModFile>>)
    THEN [st EXCEPT !.fs = Put(st.fs, <<goModFile>>, Replacement(ver))]
    ELSE [st EXCEPT !.fs = Put(st.fs, <<goModFile>>, PatchGoMod(st.fs[<<goModFile>>], ver))]

\* WithGoVersion: patch go.mod when os.Stat returns no error.
WithGoVersionFn(ver, a, st) ==
    IF ~Exists(st.fs, <<goModFile>>) \/ Fails(st, "stat", <<goModFile>>)
    THEN st
    ELSE IF Fails(st, "read", <<goModFile>>)
    THEN Return(st, <<"unable to read go.mod file (", goModFile, "): ", OSError>>)
    ELSE IF Fails(st, "write", <<goModFile>>)
    THEN Return(st, <<"unable to write go.mod file (", goModFile, "): ", OSError>>)
    ELSE [st EXCEPT !.fs = Put(st.fs, <<goModFile>>, PatchGoMod(st.fs[<<goModFile>>], ver))]

\* strings.Join(elems, "\n")
RECURSIVE JoinLines(_)
JoinLines(elems) ==
    IF elems = <<>> THEN <<>>
    ELSE IF Len(elems) = 1 THEN elems
    ELSE <<elems[1], "\n">> \o JoinLines(Tail(elems))

\* WithCodeOwners with at least one entry (with none the constructor returns
\* noOp()): what follows the open of CODEOWNERS.
WriteCodeOwners(codeOwners, st) ==
    IF codeOwnersFileName \notin DOMAIN warnings
    THEN Return(st, <<"unable to find a 'warnings' entry for ", codeOwnersFileName>>)
    ELSE IF Fails(st, "header", <<codeOwnersFileName>>)
    THEN Return(st, <<"unable to write warning to file (", codeOwnersFileName, "): ", OSError>>)
    ELSE IF Fails(st, "write", <<codeOwnersFileName>>)
    THEN Return([st EXCEPT !.fs = Put(st.fs, <<codeOwnersFileName>>,
                                      <<warnings[codeOwnersFileName]>>)],
                <<"unable to write codeOwners to file (", codeOwnersFileName, "): ", OSError>>)
    ELSE [st EXCEPT !.fs = Put(st.fs, <<codeOwnersFileName>>,
                                <<warnings[codeOwnersFileName]>> \o JoinLines(codeOwners))]

\* The open, the writes, and the deferred _ = file.Close() on every exit.
WithCodeOwnersFn(codeOwners, a, st) ==
    IF Fails(st, "open", <<codeOwnersFileName>>)
    THEN Return(st, <<"unable to write file (", codeOwnersFileName, "): ", OSError>>)
    ELSE CloseHandle(
            WriteCodeOwners(codeOwners,
                OpenHandle([st EXCEPT !.fs = OpenTrunc(st.fs, <<codeOwnersFileName>>)],
                           <<codeOwnersFileName>>)),
            <<codeOwnersFileName>>)

\* WithMakefile: the value bundle, then one render per file under templates/Makefile.
\* A loop that puts each directive before the ones already built.
RECURSIVE DepStringPrepending(_)
DepStringPrepending(deps) ==
    IF deps = <<>> THEN <<>>
    ELSE <<"go get -u ", deps[Len(deps)], "@latest\n\t">>
            \o DepStringPrepending(SubSeq(deps, 1, Len(deps) - 1))

RECURSIVE DepString(_)
DepString(deps) ==
    IF deps = <<>> THEN <<>>
    ELSE DepString(SubSeq(deps, 1, Len(deps) - 1))
            \o <<"go get -u ", deps[Len(deps)], "@latest\n\t">>

RECURSIVE IncludeString(_)
IncludeString(makeExt) ==
    IF makeExt = <<>> THEN <<>>
    ELSE IncludeString(SubSeq(makeExt, 1, Len(makeExt) - 1))
            \o <<"include Makefile.", makeExt[Len(makeExt)], "\n">>

MakefileArgs(makeExt, a) ==
    [ZeroArgs EXCEPT
        !.BinaryName = <<a.binaryName>>,
        !.BuildEnvArgs = IF cgoEnabled \in DOMAIN a.settings /\ a.settings[cgoEnabled]
                         THEN <<"CGO_ENABLED=1 ">> ELSE <<>>,
        !.Dependencies = IF dependencies \in DOMAIN a.settings
                         THEN DepString(a.settings[dependencies]) ELSE <<>>,
        !.Includes = IncludeString(makeExt)]

\* node.Name()[:len(node.Name())-len(templateExts["mkfile"])]
TrimExt(name, ext) == CHOOSE base \in {"Makefile"} : base \o ext = name

RECURSIVE MakefileJobs(_, _)
MakefileJobs(nodes, tmplArgs) ==
    IF nodes = {} THEN <<>>
    ELSE LET node == CHOOSE n \in nodes : TRUE
         IN  << Job("mkfile", TrimExt(node, templateExts["mkfile"]), <<>>, node,
                    mkfilesSubDir, tmplArgs) >>
                \o MakefileJobs(nodes \ {node}, tmplArgs)

WithMakefileFn(makeExt, a, st) ==
    IF Fails(st, "readdir", <<templateBaseDir, mkfilesSubDir>>)
    THEN Return(st, <<"unable to read dir (", mkfilesSubDir, "): ", OSError>>)
    ELSE RenderAll(MakefileJobs(ReadDir(<<templateBaseDir, mkfilesSubDir>>),
                                MakefileArgs(makeExt, a)), st)

\* A setupOp value: the closure's function and the arguments it captured.
Op(kind, args) == [kind |-> kind, args |-> args]

\* op(a): the call of a setupOp.
Call(op, a, st) ==
    CASE op.kind = "noOp" -> NoOpFn(a, st)
      [] op.kind = "WithPackages" -> WithPackagesFn(op.args, a, st)
      [] op.kind = "WithConfig" -> WithConfigFn(a, st)
      [] op.kind = "WithGithubWorkflows" -> WithGithubWorkflowsFn(op.args, a, st)
      [] op.kind = "WithGoVersion" -> WithGoVersionFn(op.args[1], a, st)
      [] op.kind = "WithCodeOwners" -> WithCodeOwnersFn(op.args, a, st)
      [] op.kind = "WithMakefile" -> WithMakefileFn(op.args, a, st)

---------------------------------------------------------------------------
(* SetupApp and Generate. *)

\* a.ops = ops
StoreOps(list) == list

\* A loop that walks the list from its end.
OpAtFromEnd(list, k) == list[Len(list) + 1 - k]

\* The element the k-th iteration of `for _, op := range a.ops` visits.
OpAt(list, k) == list[k]

\* A loop that replaces the closure's error by one of its own.
GenerateOpGeneric(op, a, st) ==
    LET r == Call(op, a, st)
    IN  IF Panicking(r) THEN r
        ELSE IF r.ret # <<>> THEN Panic(r, <<"setup operation failed">>, "Generate")
        ELSE r

\* An iteration that removes every file when the closure fails.
GenerateOpCleanup(op, a, st) ==
    LET r == Call(op, a, st)
    IN  IF Panicking(r) THEN [r EXCEPT !.fs = NoFiles]
        ELSE IF r.ret # <<>> THEN Panic([r EXCEPT !.fs = NoFiles], r.ret, "Generate")
        ELSE r

\* One iteration of Generate's loop: err := op(a); if err != nil { panic(err) }
GenerateOp(op, a, st) ==
    LET r == Call(op, a, st)
    IN  IF Panicking(r) THEN r
        ELSE IF r.ret # <<>> THEN Panic(r, r.ret, "Generate")
        ELSE r

\* Generate on the list from its k-th element on, with no failing call.
RECURSIVE GenerateFrom(_, _, _, _)
GenerateFrom(list, k, a, st) ==
    IF k > Len(list) \/ Panicking(st) THEN st
    ELSE GenerateFrom(list, k + 1, a, GenerateOp(OpAt(list, k), a, st))

---------------------------------------------------------------------------
(* The caller's inputs. *)

Versions == {"1.22", "1.23"}
PackageChoices == {<<>>, <<"logger", "logger">>, <<"", "logger">>}
WorkflowChoices == {<<"test", "test">>, <<"linter", "test">>, <<"test", "changelog">>}
DependencyChoices == {<<"x", "y">>}
MakeExtChoices == {<<"docker">>}
CodeOwnerChoices == {<<>>, <<"alice", "bob">>}

TypicalGoMod == <<"module m", "\n", "go 1.21", "\n", "require r", "\n">>
InitialDisks == {NoFiles, Put(NoFiles, <<goModFile>>, TypicalGoMod)}

\* A disk that already holds files of the names the closures write, with text
\* of the user's own.
StaleText == <<"hand-written\n">>

StaleFiles ==
    { <<codeOwnersFileName>>, <<"Makefile">>, <<"app", "logger", "config.go">>,
      <<".github", "workflows", "test.yml">>, <<".github", "workflows", "changelog.yml">> }

StaleDisks ==
    { NoFiles,
      [p \in StaleFiles |-> StaleText] @@ Put(NoFiles, <<goModFile>>, TypicalGoMod) }

\* Manifests whose declaration is on the first line, is surrounded by blank
\* lines and blanks, or ends the text.
RerunDisks ==
    InitialDisks \cup
    { Put(NoFiles, <<goModFile>>, m) :
        m \in { <<"go 1.21", "\n", "module m", "\n">>,
                <<"module m", "\n", "\n", "\n", " ", "go 1.21", " ", "\n", "\n", "require r">>,
                <<"module m", "\n", "go 1.21">> } }

\* Every text of at most MaxManifest atoms of a manifest.
ManifestAtoms == {"\n", " ", "go 1.21", "module m"}

RECURSIVE TextsUpTo(_)
TextsUpTo(n) ==
    IF n = 0 THEN {<<>>}
    ELSE LET shorter == TextsUpTo(n - 1)
         IN  shorter \cup { Append(t, x) : t \in shorter, x \in ManifestAtoms }

ManifestDisks ==
    {NoFiles} \cup { Put(NoFiles, <<goModFile>>, m) : m \in TextsUpTo(MaxManifest) }

\* The failures the environment may produce during one call of op: a failing
\* file-system call (stage, path) among those the closure makes.
FaultChoices(op) ==
    CASE op.kind \in {"WithPackages", "WithConfig"} ->
            { [stage |-> "open", path |-> <<"app", "logger", "config.go">>],
              [stage |-> "close", path |-> <<"app", "config.go">>] }
      [] op.kind = "WithGithubWorkflows" ->
            { [stage |-> "mkdir", path |-> <<".github", "workflows">>],
              [stage |-> "execute", path |-> <<".golangci.toml">>] }
      [] op.kind = "WithGoVersion" ->
            { [stage |-> "stat", path |-> <<goModFile>>],
              [stage |-> "read", path |-> <<goModFile>>],
              [stage |-> "write", path |-> <<goModFile>>] }
      [] op.kind = "WithCodeOwners" ->
            { [stage |-> "open", path |-> <<codeOwnersFileName>>],
              [stage |-> "header", path |-> <<codeOwnersFileName>>],
              [stage |-> "write", path |-> <<codeOwnersFileName>>] }
      [] op.kind = "WithMakefile" ->
            { [stage |-> "readdir", path |-> <<templateBaseDir, mkfilesSubDir>>],
              [stage |-> "header", path |-> <<"Makefile">>] }
      [] OTHER -> {}

\* The list without its i-th element.
Without(list, i) == SubSeq(list, 1, i - 1) \o SubSeq(list, i + 1, Len(list))

\* The orders in which the elements of the list can be listed.
RECURSIVE Perms(_)
Perms(list) ==
    IF list = <<>> THEN {<<>>}
    ELSE UNION { { <<list[i]>> \o q : q \in Perms(Without(list, i)) } :
                 i \in 1 .. Len(list) }

SetKey(m, k, v) == (k :> v) @@ m

\* The App value Generate passes to every closure.
AppValue == [binaryName |-> app.binaryName, dir |-> app.dir, settings |-> settings]

---------------------------------------------------------------------------
(* The state machine. *)

\* NewApp("rachio-next-run", "app") on some disk.
Start(disks) ==
    /\ app = [binaryName |-> "rachio-next-run", dir |-> "app"]
    /\ settings = <<>>
    /\ pool = <<>>
    /\ ops = <<>>
    /\ given = <<>>
    /\ pc = "build"
    /\ idx = 1
    /\ invoked = <<>>
    /\ reported = <<>>
    /\ fs \in disks
    /\ fsStart = fs
    /\ fsPrev = fs
    /\ pcPrev = "none"
    /\ fsBefore = fs
    /\ written = {}
    /\ run = 1
    /\ panicVal = <<>>
    /\ raisedBy = "none"
    /\ handles = [open |-> {}, peak |-> 0]

Init == Start(InitialDisks)

InitRerun == Start(RerunDisks)

InitAll == Start(StaleDisks)

\* The same on a disk whose go.mod holds any text of the manifest's atoms.
InitPatch == Start(ManifestDisks)

\* A constructor call: its eager write to settings, and the closure it
\* returns, which the caller keeps for SetupApp or drops.
Construct(key, val, op, keep) ==
    /\ pc = "build"
    /\ keep => Len(pool) < MaxOps
    /\ settings' = IF key = "" THEN settings ELSE SetKey(settings, key, val)
    /\ pool' = IF keep THEN Append(pool, op) ELSE pool
    /\ UNCHANGED <<app, ops, given, pc, idx, invoked, reported, fs, fsStart, fsPrev, pcPrev,
                   fsBefore, written, run, panicVal, raisedBy, handles>>

\* A constructor that returns the writing closure whatever the entries.
WithCodeOwnersAlways ==
    \E codeOwners \in CodeOwnerChoices :
        Construct("", "", Op("WithCodeOwners", codeOwners), TRUE)

WithCodeOwners ==
    \E codeOwners \in CodeOwnerChoices :
        Construct("", "", IF Len(codeOwners) = 0 THEN Op("noOp", <<>>)
                          ELSE Op("WithCodeOwners", codeOwners), TRUE)

WithPackages ==
    \E packageNames \in PackageChoices :
        Construct("", "", Op("WithPackages", packageNames), TRUE)

\* A constructor that records nothing until its closure is called.
WithCGOEnabledDeferred ==
    \E keep \in BOOLEAN : Construct("", "", Op("noOp", <<>>), keep)

WithCGOEnabled ==
    \E keep \in BOOLEAN : Construct(cgoEnabled, TRUE, Op("noOp", <<>>), keep)

WithConfig == Construct("", "", Op("WithConfig", <<>>), TRUE)

WithDependencies ==
    \E deps \in DependencyChoices, keep \in BOOLEAN :
        Construct(dependencies, deps, Op("noOp", <<>>), keep)

WithGithubWorkflows ==
    \E flows \in WorkflowChoices :
        Construct("", "", Op("WithGithubWorkflows", flows), TRUE)

\* A constructor that leaves the version to its closure.
WithGoVersionNoRecord ==
    \E ver \in Versions, keep \in BOOLEAN :
        Construct("", "", Op("WithGoVersion", <<ver>>), keep)

WithGoVersion ==
    \E ver \in Versions, keep \in BOOLEAN :
        Construct(goVersion, ver, Op("WithGoVersion", <<ver>>), keep)

WithMakefile ==
    \E makeExt \in MakeExtChoices :
        Construct("", "", Op("WithMakefile", makeExt), TRUE)

\* app.SetupApp(list...) followed by .Generate(): the list is the closures the
\* caller kept, in the order the caller chooses.
SetupApp ==
    /\ pc = "build"
    /\ \E list \in Perms(pool) :
        /\ ops' = StoreOps(list)
        /\ given' = list
    /\ pool' = <<>>
    /\ pc' = "run"
    /\ UNCHANGED <<app, settings, idx, invoked, reported, fs, fsStart, fsPrev, pcPrev,
                   fsBefore, written, run, panicVal, raisedBy, handles>>

\* One iteration of Generate's loop, in the environment f.
Iterate(f) ==
    /\ pc = "run"
    /\ idx <= Len(ops)
    /\ LET r == GenerateOp(OpAt(ops, idx), AppValue, StateOf(fs, f))
       IN  /\ fs' = r.fs
           /\ fsBefore' = fs
           /\ invoked' = Append(invoked, [op |-> OpAt(ops, idx), failed |-> Panicking(r),
                                          fault |-> f])
           /\ reported' = r.ret
           /\ panicVal' = r.panic
           /\ raisedBy' = r.by
           /\ handles' = [open |-> r.open, peak |-> Max(handles.peak, r.peak)]
           /\ IF Panicking(r)
              THEN pc' = "panic" /\ idx' = idx /\ written' = written
              ELSE /\ pc' = pc
                   /\ idx' = idx + 1
                   /\ written' = written \cup
                        { p \in DOMAIN r.fs : p \notin DOMAIN fs \/ r.fs[p] # fs[p] }
    /\ UNCHANGED <<app, settings, pool, ops, given, fsStart, fsPrev, pcPrev, run>>

GenerateStep == Iterate(NoFault)

\* Whether the failure f shows in the call of op on the disk: the closure makes
\* the file-system call that fails, and its outcome is not the one without f.
Shows(f, op, a, disk) ==
    LET r == Call(op, a, StateOf(disk, f))
        q == Call(op, a, StateOf(disk, NoFault))
    IN  r.fs # q.fs \/ r.ret # q.ret \/ r.panic # q.panic

\* One iteration in which a file-system call of the closure fails.
GenerateStepFault ==
    /\ pc = "run"
    /\ idx <= Len(ops)
    /\ \E f \in FaultChoices(OpAt(ops, idx)) :
        /\ Shows(f, OpAt(ops, idx), AppValue, fs)
        /\ Iterate(f)

\* The loop has visited every element: Generate returns.
GenerateReturn ==
    /\ pc = "run"
    /\ idx > Len(ops)
    /\ pc' = "done"
    /\ UNCHANGED <<app, settings, pool, ops, given, idx, invoked, reported, fs, fsStart, fsPrev,
                   pcPrev, fsBefore, written, run, panicVal, raisedBy, handles>>

\* The caller's program is run again, unchanged, on the disk the last run left.
Rerun ==
    /\ pc \in {"done", "panic"}
    /\ run < MaxRuns
    /\ run' = run + 1
    /\ fsPrev' = fs
    /\ pcPrev' = pc
    /\ fsStart' = fs
    /\ fsBefore' = fs
    /\ written' = {}
    /\ pc' = "run"
    /\ idx' = 1
    /\ invoked' = <<>>
    /\ reported' = <<>>
    /\ panicVal' = <<>>
    /\ raisedBy' = "none"
    /\ handles' = [open |-> {}, peak |-> 0]
    /\ UNCHANGED <<app, settings, pool, ops, given, fs>>

\* The caller uses the constructors of the files under the source directory
\* and of the toolchain version.
Next ==
    \/ WithPackages
    \/ WithConfig
    \/ WithGithubWorkflows
    \/ WithGoVersion
    \/ SetupApp
    \/ GenerateStep
    \/ GenerateReturn

\* The caller uses every constructor.
NextAll ==
    \/ Next
    \/ WithCodeOwners
    \/ WithCGOEnabled
    \/ WithDependencies
    \/ WithMakefile

\* Calls may fail in the environment.
NextFault ==
    \/ NextAll
    \/ GenerateStepFault

\* The program is run more than once.
NextRerun ==
    \/ Next
    \/ WithCodeOwners
    \/ WithMakefile
    \/ Rerun

Spec == Init /\ [][Next]_vars

\* The caller sets the toolchain version only.
NextPatch ==
    \/ WithGoVersion
    \/ SetupApp
    \/ GenerateStep
    \/ GenerateReturn

SpecPatch == InitPatch /\ [][NextPatch]_vars

SpecAll == InitAll /\ [][NextAll]_vars

SpecFault == Init /\ [][NextFault]_vars

SpecRerun == InitRerun /\ [][NextRerun]_vars

\* generateTemplate called on its own, with argument records that the closures
\* of this package build and others that they do not: a fileType with no entry
\* in warnings, a template that is not embedded.
RenderJobs ==
    { Job(fileType, "notes", outputSubDir, tpl[1], tpl[2],
          [ZeroArgs EXCEPT !.PackageName = <<"logger">>]) :
        fileType \in {"go", "txt"},
        outputSubDir \in {<<>>, <<"app", "logger">>},
        tpl \in { <<"config.go.tpl", "package">>, <<"test.yml.tpl", "github_workflows">>,
                  <<"missing.tpl", "">> } }

RenderFaults(job) ==
    { NoFault, [stage |-> "header", path |-> Join(job.outputSubDir, <<job.outputName>>)] }

Render ==
    /\ pc = "build"
    /\ Len(invoked) < MaxOps
    /\ \E job \in RenderJobs :
        \E f \in RenderFaults(job) :
            LET r == generateTemplate(job, StateOf(fs, f))
            IN  /\ fs' = r.fs
                /\ fsBefore' = fs
                /\ invoked' = Append(invoked, [op |-> Op("generateTemplate", job),
                                               failed |-> Panicking(r), fault |-> f])
                /\ reported' = r.ret
                /\ panicVal' = r.panic
                /\ raisedBy' = r.by
                /\ handles' = [open |-> r.open, peak |-> Max(handles.peak, r.peak)]
                /\ pc' = IF Panicking(r) THEN "panic" ELSE pc
    /\ UNCHANGED <<app, settings, pool, ops, given, idx, fsStart, fsPrev, pcPrev, written, run>>

NextRender == Render

SpecRender == InitAll /\ [][NextRender]_vars

---------------------------------------------------------------------------
(* Properties. *)

Finished == pc \in {"done", "panic"}

Last == invoked[Len(invoked)]

\* C1: SetupApp stores the list it is given unchanged, and Generate calls the
\* stored closures in list order: the closures called so far are the first
\* ones of the list, in its order, each called only after every one before
\* it returned without failing, and a run that returns has called them all.
C1_ListOrder ==
    /\ ops = given
    /\ Len(invoked) <= Len(given)
    /\ \A i \in 1 .. Len(invoked) :
        /\ invoked[i].op = given[i]
        /\ i < Len(invoked) => ~invoked[i].failed
    /\ pc = "run" => Len(invoked) = idx - 1
    /\ pc = "done" => Len(invoked) = Len(given) /\ ~(\E i \in 1 .. Len(invoked) : invoked[i].failed)

\* A run that called two closures or more, not all the same, and returned.
C1_Witness ==
    /\ pc = "done"
    /\ Len(invoked) >= 2
    /\ invoked[1].op # invoked[Len(invoked)].op

\* C2: when the closure at position k returns an error, Generate panics with
\* exactly that error and calls no closure after position k.
C2_FirstFailureSurfaces ==
    /\ reported # <<>> =>
        /\ pc = "panic"
        /\ panicVal = reported
        /\ raisedBy = "Generate"
    /\ pc = "panic" =>
        /\ Len(invoked) = idx
        /\ Last.failed
        /\ \A i \in 1 .. Len(invoked) - 1 : ~invoked[i].failed

\* A closure returned an error while closures after it were still to be called.
C2_Witness ==
    /\ pc = "panic"
    /\ reported # <<>>
    /\ idx < Len(ops)

---------------------------------------------------------------------------

\* Each constructor gave at most one closure of the list.
EachOnce(list) ==
    \A i, j \in 1 .. Len(list) : list[i].kind = list[j].kind => i = j

\* Generate on the list, from the disk this run began on.
RunOf(list) == GenerateFrom(list, 1, AppValue, StateOf(fsStart, NoFault))

\* The files the closure writes.
Outputs(op) == DOMAIN Call(op, AppValue, StateOf(NoFiles, NoFault)).fs

DisjointOutputs(list) ==
    \A i, j \in 1 .. Len(list) : i # j => Outputs(list[i]) \cap Outputs(list[j]) = {}

Bundled(flows) ==
    \A i \in 1 .. Len(flows) :
        <<templateBaseDir, "github_workflows", flows[i] \o templateExts["yml"]>> \in templatesFS

\* C3 as stated: with each constructor used at most once, every order of the
\* list gives the same outcome and the same files.
C3_AnyOrderSameFiles ==
    Finished /\ EachOnce(given) =>
        \A q \in Perms(given) :
            /\ Panicking(RunOf(q)) = (pc = "panic")
            /\ RunOf(q).fs = fs

\* C3, amended: with each constructor used at most once, every order of the
\* list gives the same outcome, success or failure; when the run succeeds and
\* no two closures write the same file, every order leaves the same files; and
\* a WithGithubWorkflows closure of bundled workflows listed before the
\* WithGoVersion closure does not fail.
C3_AnyOrderOnSuccess ==
    /\ Finished /\ EachOnce(given) =>
        \A q \in Perms(given) :
            /\ Panicking(RunOf(q)) = (pc = "panic")
            /\ pc = "done" /\ DisjointOutputs(given) => RunOf(q).fs = fs
    /\ \A i \in 1 .. Len(invoked) :
        ( /\ invoked[i].op.kind = "WithGithubWorkflows"
          /\ Bundled(invoked[i].op.args)
          /\ \E j \in i + 1 .. Len(given) : given[j].kind = "WithGoVersion" )
        => ~invoked[i].failed

\* WithGithubWorkflows listed before WithGoVersion, and the run returned.
C3_Witness ==
    /\ pc = "done"
    /\ Len(given) = 2
    /\ given[1].kind = "WithGithubWorkflows"
    /\ given[2].kind = "WithGoVersion"
    /\ <<".github", "workflows", "test.yml">> \in DOMAIN fs

---------------------------------------------------------------------------

ReturnedFailures ==
    {"unable to read go.mod file (", "unable to write go.mod file (",
     "unable to write file (", "unable to find a 'warnings' entry for ",
     "unable to write codeOwners to file (", "unable to read dir ("}

RendererFailures ==
    {"unable to create directory structure (", "unable to create file (",
     "template: pattern matches no files: ", "unable to execute template (",
     "error closing file ("}

\* The header-write message is the renderer's and, for CODEOWNERS, WithCodeOwners'.
HeaderFailure == "unable to write warning to file ("

\* C4 as stated: every abort of the run is raised by Generate, from the error
\* the closure returned.
C4_OnlyGenerateRaises == pc = "panic" => raisedBy = "Generate" /\ reported = panicVal

\* C4, amended: a failure of the go.mod read or write, of the CODEOWNERS open
\* or writes, or of the listing of the Makefile templates is returned to
\* Generate, whose panic(err) raises the abort; a missing GoVersion setting
\* aborts by a panic raised in the WithGithubWorkflows closure, and every
\* failure of the renderer (directory creation, file open, header write,
\* template parse, template execute, close) by a panic raised in
\* generateTemplate, with no error returned to Generate.
C4_WhoRaises ==
    pc = "panic" =>
        LET returned == \/ panicVal[1] \in ReturnedFailures
                        \/ panicVal[1] = HeaderFailure /\ panicVal[2] = codeOwnersFileName
            rendered == \/ panicVal[1] \in RendererFailures
                        \/ panicVal[1] = HeaderFailure /\ panicVal[2] # codeOwnersFileName
        IN  /\ returned \/ rendered \/ panicVal = MissingGoVersion
            /\ returned => raisedBy = "Generate" /\ reported = panicVal
            /\ rendered => raisedBy = "generateTemplate" /\ reported = <<>>
            /\ panicVal = MissingGoVersion =>
                    raisedBy = "WithGithubWorkflows" /\ reported = <<>>

\* The run aborted on the error a closure returned: the go.mod write failed.
C4_Witness ==
    /\ pc = "panic"
    /\ raisedBy = "Generate"
    /\ panicVal[1] = "unable to write go.mod file ("

\* C5: a WithGithubWorkflows closure called with no GoVersion setting fails,
\* with a message that names GoVersion and WithGoVersion, and writes no file.
C5_MissingVersion ==
    ( /\ invoked # <<>>
      /\ Last.op.kind = "WithGithubWorkflows"
      /\ goVersion \notin DOMAIN settings )
    => /\ pc = "panic"
       /\ Last.failed
       /\ panicVal = <<"no ", "GoVersion", " provided - please call WithGoVersion">>
       /\ fs = fsBefore

\* The workflows closure was called with no GoVersion recorded, after a closure
\* that wrote a file.
C5_Witness ==
    /\ Len(invoked) = 2
    /\ Last.op.kind = "WithGithubWorkflows"
    /\ goVersion \notin DOMAIN settings
    /\ written # {}

\* The workflow files and the lint configuration the names call for.
WorkflowFiles(flows) ==
    { <<".github", "workflows", flows[i] \o ".yml">> : i \in 1 .. Len(flows) }
    \cup (IF \E i \in 1 .. Len(flows) : flows[i] = "linter"
          THEN {<<".golangci.toml">>} ELSE {})

Changed(before, after) ==
    { p \in DOMAIN after : p \notin DOMAIN before \/ after[p] # before[p] }

\* C6: with GoVersion recorded and every name's template bundled, the
\* WithGithubWorkflows closure succeeds, leaves one .github/workflows/{name}.yml
\* per distinct name, each headed by the yml warning and carrying the version,
\* leaves .golangci.toml exactly when "linter" is among the names, and writes
\* no other file.
C6_WorkflowsWritten ==
    ( /\ invoked # <<>>
      /\ Last.op.kind = "WithGithubWorkflows"
      /\ goVersion \in DOMAIN settings
      /\ Bundled(Last.op.args) )
    => LET flows == Last.op.args
           toml == <<".golangci.toml">>
       IN  /\ ~Last.failed
           /\ DOMAIN fs = DOMAIN fsBefore \cup WorkflowFiles(flows)
           /\ Changed(fsBefore, fs) \subseteq WorkflowFiles(flows)
           /\ \A i \in 1 .. Len(flows) :
                LET file == fs[<<".github", "workflows", flows[i] \o ".yml">>]
                IN  /\ file[1] = "# " \o warning
                    /\ \E k \in 2 .. Len(file) : file[k] = settings[goVersion]
           /\ (toml \in Changed(fsBefore, fs)) <=>
                ((\E i \in 1 .. Len(flows) : flows[i] = "linter")
                    /\ (toml \notin DOMAIN fsBefore \/ fsBefore[toml] # fs[toml]))
           /\ (\E i \in 1 .. Len(flows) : flows[i] = "linter") =>
                fs[toml] = <<"# " \o warning>> \o GolangciTpl(ZeroArgs)

\* The closure ran for "linter" and "test" and left the three files.
C6_Witness ==
    /\ invoked # <<>>
    /\ Last.op = Op("WithGithubWorkflows", <<"linter", "test">>)
    /\ ~Last.failed
    /\ {<<".golangci.toml">>, <<".github", "workflows", "linter.yml">>,
        <<".github", "workflows", "test.yml">>} \subseteq DOMAIN fs

\* C7: a second Generate on the same list, from the disk the first one left,
\* ends as the first one did and leaves every file, the patched go.mod
\* included, with the content it had after the first run.
C7_Idempotent == (run >= 2 /\ Finished) => (fs = fsPrev /\ pc = pcPrev)

\* A second run returned after patching go.mod and rendering a template.
C7_Witness ==
    /\ run = 2
    /\ pc = "done"
    /\ Len(invoked) = 2
    /\ <<goModFile>> \in DOMAIN fs
    /\ \E i \in 1 .. 2, k \in 1 .. Len(fs[<<goModFile>>]) :
        /\ invoked[i].op.kind = "WithGoVersion"
        /\ fs[<<goModFile>>][k] = "go " \o invoked[i].op.args[1]
    /\ \E p \in DOMAIN fs : p # <<goModFile>>

\* C8 as stated: when the run aborts, every file the earlier closures wrote is
\* present with the content they wrote.
C8_EarlierFilesAsWritten ==
    pc = "panic" => \A p \in written : p \in DOMAIN fs /\ fs[p] = fsBefore[p]

\* C8, amended: when the run aborts at a closure, no file is removed, the disk
\* differs from the disk before that closure only in files that closure itself
\* writes, and every file the earlier closures wrote is present, with the
\* content they wrote unless the failing closure wrote the same path before it
\* failed.
C8_NoRollback ==
    pc = "panic" =>
        /\ DOMAIN fsStart \subseteq DOMAIN fs
        /\ DOMAIN fsBefore \subseteq DOMAIN fs
        /\ Changed(fsBefore, fs) \subseteq Outputs(Last.op)
        /\ \A p \in written :
            p \in DOMAIN fs /\ (fs[p] = fsBefore[p] \/ p \in Outputs(Last.op))

\* The run aborted in a closure that had rewritten a file of an earlier one.
C8_Witness ==
    /\ pc = "panic"
    /\ \E p \in written : fs[p] # fsBefore[p]

\* The lines of a text.
RECURSIVE Lines(_)
Lines(m) ==
    IF m = <<>> THEN << <<>> >>
    ELSE LET rest == Lines(Tail(m))
         IN  IF Head(m) = "\n" THEN << <<>> >> \o rest
             ELSE << <<Head(m)>> \o rest[1] >> \o Tail(rest)

NotSpace(atom) == ~IsSpace(atom)

\* A line that holds a go declaration and blanks only.
IsDeclLine(line) ==
    LET words == SelectSeq(line, NotSpace)
    IN  Len(words) = 1 /\ IsGoDecl(words[1])

\* A line that is neither blank nor a declaration.
IsOtherLine(line) == SelectSeq(line, NotSpace) # <<>> /\ ~IsDeclLine(line)

Declared(m) ==
    LET decls == SelectSeq(Lines(m), IsDeclLine)
    IN  { SelectSeq(decls[i], NotSpace)[1] : i \in 1 .. Len(decls) }

\* C9: a WithGoVersion(V) closure that succeeds on a go.mod holding a
\* declaration line, on whatever line, leaves a go.mod whose declaration lines
\* all say go V, at least one does, and whose other non-blank lines are the
\* ones it had, in their order.
C9_DeclarationPatched ==
    ( /\ invoked # <<>>
      /\ Last.op.kind = "WithGoVersion"
      /\ ~Last.failed
      /\ <<goModFile>> \in DOMAIN fsBefore
      /\ Declared(fsBefore[<<goModFile>>]) # {} )
    => /\ Declared(fs[<<goModFile>>]) = {"go " \o Last.op.args[1]}
       /\ SelectSeq(Lines(fs[<<goModFile>>]), IsOtherLine)
            = SelectSeq(Lines(fsBefore[<<goModFile>>]), IsOtherLine)

\* C10: a WithGoVersion closure called when there is no go.mod returns no
\* error, does not fail, and leaves the disk as it was: no go.mod, and every
\* other file unchanged.
C10_NoManifestNoOp ==
    ( /\ invoked # <<>>
      /\ Last.op.kind = "WithGoVersion"
      /\ <<goModFile>> \notin DOMAIN fsBefore )
    => /\ ~Last.failed
       /\ pc # "panic"
       /\ reported = <<>>
       /\ fs = fsBefore
       /\ <<goModFile>> \notin DOMAIN fs

\* The closure was called with no go.mod, after a closure that wrote files.
C10_Witness ==
    /\ Len(invoked) = 2
    /\ Last.op.kind = "WithGoVersion"
    /\ <<goModFile>> \notin DOMAIN fsBefore
    /\ written # {}

---------------------------------------------------------------------------

\* C11: WithCodeOwners with no entry gives the closure of noOp(), which
\* returns nil and leaves every file as it was, so no closure that writes
\* CODEOWNERS is ever built for an empty list; a WithCodeOwners closure that
\* succeeds leaves CODEOWNERS holding the CODEOWNERS header followed by the
\* entries in their order, joined by single newlines, whatever it held before,
\* and changes no other file.
C11_CodeOwners ==
    /\ \A i \in 1 .. Len(pool) : pool[i].kind = "WithCodeOwners" => pool[i].args # <<>>
    /\ \A i \in 1 .. Len(ops) : ops[i].kind = "WithCodeOwners" => ops[i].args # <<>>
    /\ (invoked # <<>> /\ Last.op.kind = "noOp") =>
            ~Last.failed /\ reported = <<>> /\ fs = fsBefore
    /\ (invoked # <<>> /\ Last.op.kind = "WithCodeOwners" /\ ~Last.failed) =>
            LET entries == Last.op.args
                file == fs[<<"CODEOWNERS">>]
            IN  /\ reported = <<>>
                /\ Len(file) = 2 * Len(entries)
                /\ file[1] = "# " \o warning
                /\ \A k \in 1 .. Len(entries) : file[2 * k] = entries[k]
                /\ \A k \in 1 .. Len(entries) - 1 : file[2 * k + 1] = "\n"
                /\ Changed(fsBefore, fs) \subseteq {<<"CODEOWNERS">>}

\* The closure overwrote a CODEOWNERS file that held other text.
C11_Witness ==
    /\ invoked # <<>>
    /\ Last.op = Op("WithCodeOwners", <<"alice", "bob">>)
    /\ ~Last.failed
    /\ <<"CODEOWNERS">> \in DOMAIN fsBefore
    /\ fsBefore[<<"CODEOWNERS">>] = StaleText
    /\ fs[<<"CODEOWNERS">>] # StaleText

\* {dir}/{name}/config.go, as path.Join cleans it.
PackageFile(name) ==
    IF name = "" THEN <<app.dir, "config.go">> ELSE <<app.dir, name, "config.go">>

PackageFiles(names) == { PackageFile(names[i]) : i \in 1 .. Len(names) }

\* Each name's file begins with the go header and is rendered with the name.
PackageFilesRendered(names) ==
    \A i \in 1 .. Len(names) :
        LET file == fs[PackageFile(names[i])]
        IN  /\ file[1] = "// " \o warning
            /\ Tail(file) = PackageConfigTpl([PackageName |-> <<names[i]>>])

\* C12 as stated: a WithPackages closure of N names that succeeds leaves N
\* package files, one per name.
C12_NFilesForNNames ==
    (invoked # <<>> /\ Last.op.kind = "WithPackages" /\ ~Last.failed) =>
        /\ Cardinality(PackageFiles(Last.op.args)) = Len(Last.op.args)
        /\ PackageFiles(Last.op.args) \subseteq DOMAIN fs
        /\ PackageFilesRendered(Last.op.args)

\* C12, amended: a WithPackages closure of N >= 0 names that succeeds leaves
\* one file {dir}/{name}/config.go per distinct name, so fewer than N when a
\* name is repeated, each beginning with the go header and rendered with its
\* package name, and changes no other file.
C12_OneFilePerDistinctName ==
    (invoked # <<>> /\ Last.op.kind = "WithPackages" /\ ~Last.failed) =>
        LET names == Last.op.args
        IN  /\ Cardinality(PackageFiles(names))
                = Cardinality({ names[i] : i \in 1 .. Len(names) })
            /\ PackageFiles(names) \subseteq DOMAIN fs
            /\ PackageFilesRendered(names)
            /\ Changed(fsBefore, fs) \subseteq PackageFiles(names)
            /\ DOMAIN fs = DOMAIN fsBefore \cup PackageFiles(names)

\* The closure ran for a name given twice and left its one file.
C12_Witness ==
    /\ invoked # <<>>
    /\ Last.op = Op("WithPackages", <<"logger", "logger">>)
    /\ ~Last.failed
    /\ <<"app", "logger", "config.go">> \in DOMAIN fs
    /\ <<"app", "logger", "config.go">> \notin DOMAIN fsBefore

\* The positions of an atom in a text.
Positions(text, atom) == { k \in 1 .. Len(text) : text[k] = atom }

\* C13: in the Makefile a WithMakefile closure renders, the build invocation
\* is preceded by CGO_ENABLED=1 exactly when CGOEnabled was recorded, and
\* otherwise directly by the tab of its line; the golib-latest block begins
\* with one "go get -u {dep}@latest" directive per recorded dependency, in the
\* order they were supplied, and with none when no dependency was recorded.
C13_MakefileBuildAndDeps ==
    (invoked # <<>> /\ Last.op.kind = "WithMakefile" /\ ~Last.failed) =>
        LET mk == fs[<<"Makefile">>]
            build == Positions(mk, "go build -o bin/")
            head == Positions(mk, "golib-latest:\n")
            core == Positions(mk, "go get -u github.com/skeletonkey/lib-core-go@latest\n")
            deps == IF dependencies \in DOMAIN settings THEN settings[dependencies] ELSE <<>>
        IN  /\ Cardinality(build) = 1 /\ Cardinality(head) = 1 /\ Cardinality(core) = 1
            /\ \A b \in build :
                IF cgoEnabled \in DOMAIN settings
                THEN mk[b - 1] = "CGO_ENABLED=1 " /\ mk[b - 2] = "\t"
                ELSE mk[b - 1] = "\t"
            /\ Positions(mk, "CGO_ENABLED=1 ") # {} <=> cgoEnabled \in DOMAIN settings
            /\ \A h \in head, c \in core :
                LET block == SubSeq(mk, h + 2, c - 1)
                IN  /\ mk[h + 1] = "\t"
                    /\ Len(block) = 3 * Len(deps)
                    /\ \A k \in 1 .. Len(deps) :
                        /\ block[3 * k - 2] = "go get -u "
                        /\ block[3 * k - 1] = deps[k]
                        /\ block[3 * k] = "@latest\n\t"

\* The Makefile was rendered with CGOEnabled and two dependencies recorded.
C13_Witness ==
    /\ invoked # <<>>
    /\ Last.op.kind = "WithMakefile"
    /\ ~Last.failed
    /\ cgoEnabled \in DOMAIN settings
    /\ dependencies \in DOMAIN settings
    /\ Len(settings[dependencies]) = 2

\* The include lines of the Makefile: the extension names that follow
\* "include Makefile.", in the order they appear.
IncludeLines(mk) ==
    LET at == [k \in 1 .. Len(mk) |-> k > 1 /\ mk[k - 1] = "include Makefile."]
        marked == [k \in 1 .. Len(mk) |-> IF at[k] THEN <<mk[k]>> ELSE <<>>]
        Flat[k \in 0 .. Len(mk)] == IF k = 0 THEN <<>> ELSE Flat[k - 1] \o marked[k]
    IN  Flat[Len(mk)]

\* C14: the Makefile a WithMakefile closure renders holds one line
\* "include Makefile.{ext}" per extension name supplied, in the order supplied.
C14_IncludeLines ==
    (invoked # <<>> /\ Last.op.kind = "WithMakefile" /\ ~Last.failed) =>
        IncludeLines(fs[<<"Makefile">>]) = Last.op.args

---------------------------------------------------------------------------

\* The generateTemplate calls the closure makes, in order, when none fails.
JobsOf(op, a) ==
    CASE op.kind = "WithPackages" -> PackageJobs(op.args, a)
      [] op.kind = "WithConfig" ->
            << Job("go", "config.go", PathOf(a.dir), "config" \o templateExts["go"], "",
                   [ZeroArgs EXCEPT !.ConfigName = <<a.dir>>]) >>
      [] op.kind = "WithGithubWorkflows" /\ goVersion \in DOMAIN a.settings ->
            WorkflowJobs(op.args, [ZeroArgs EXCEPT !.GoVersion = <<a.settings[goVersion]>>])
                \o LinterJobs(op.args)
      [] op.kind = "WithMakefile" ->
            MakefileJobs(ReadDir(<<templateBaseDir, mkfilesSubDir>>), MakefileArgs(op.args, a))
      [] OTHER -> <<>>

InputOf(job) ==
    Join(<<templateBaseDir>>, Join(PathOf(job.templateSubDir), <<job.templateName>>))

OutputOf(job) == Join(job.outputSubDir, <<job.outputName>>)

\* The calls that returned: all of them, or those before the one that panicked.
Rendered(jobs, failed) ==
    IF ~failed THEN jobs
    ELSE LET bad == { i \in 1 .. Len(jobs) : InputOf(jobs[i]) \notin templatesFS }
         IN  SubSeq(jobs, 1, (CHOOSE i \in bad : \A j \in bad : i <= j) - 1)

\* C15: a file that generateTemplate rendered holds the header of its category
\* followed by the body the template renders for the value bundle, and nothing
\* else: nothing of what the file held before the closure was called.
C15_HeaderThenBody ==
    (invoked # <<>> /\ (Last.failed => panicVal[1] = "template: pattern matches no files: ")) =>
        LET jobs == Rendered(JobsOf(Last.op, AppValue), Last.failed)
        IN  \A i \in 1 .. Len(jobs) :
                LET file == fs[OutputOf(jobs[i])]
                IN  /\ OutputOf(jobs[i]) \in DOMAIN fs
                    /\ file[1] = warnings[jobs[i].fileType]
                    /\ Tail(file) = Execute(InputOf(jobs[i]), jobs[i].templateArgs)
                    /\ \A k \in 1 .. Len(file) : file[k] # StaleText[1]

\* A closure rendered a file that held other text before.
C15_Witness ==
    /\ invoked # <<>>
    /\ ~Last.failed
    /\ \E i \in 1 .. Len(JobsOf(Last.op, AppValue)) :
        LET p == OutputOf(JobsOf(Last.op, AppValue)[i])
        IN  /\ p \in DOMAIN fsBefore
            /\ fsBefore[p] = StaleText
            /\ fs[p] # StaleText

\* C16: generateTemplate called with a fileType that has no entry in warnings
\* panics and writes no file.
C16_UnregisteredCategoryFails ==
    ( /\ invoked # <<>>
      /\ Last.op.kind = "generateTemplate"
      /\ Last.op.args.fileType \notin DOMAIN warnings )
    => /\ Last.failed
       /\ pc = "panic"
       /\ fs = fsBefore

---------------------------------------------------------------------------

\* C17: when a closure has returned or panicked, on every exit path, no output
\* file it opened is still open, and no more than one output file was open at
\* any time during the run.
C17_HandlesClosed ==
    /\ handles.open = {}
    /\ handles.peak <= 1
    /\ (invoked # <<>> /\ Changed(fsBefore, fs) # {} /\ Last.op.kind # "WithGoVersion")
            => handles.peak = 1

\* A closure panicked after it had opened its output file: the header write
\* failed, the template was not embedded, or the template's execution failed.
C17_Witness ==
    /\ pc = "panic"
    /\ raisedBy = "generateTemplate"
    /\ handles.peak = 1
    /\ panicVal[1] \in {"unable to write warning to file (",
                        "template: pattern matches no files: ",
                        "unable to execute template ("}

---------------------------------------------------------------------------

\* The versions the workflow file carries: the atoms that follow "go-version".
RenderedVersions(file) ==
    { file[k] : k \in { j \in 2 .. Len(file) :
                            file[j - 1] \in {"go-version: \"", "go-version: "} } }

\* C18: after a Generate that returned, over a list with a WithGoVersion
\* closure and a WithGithubWorkflows closure, on a disk whose go.mod held a
\* declaration line, the version in every workflow file is the version every
\* declaration line of go.mod declares.
C18_VersionConsistency ==
    ( /\ pc = "done"
      /\ \E i \in 1 .. Len(given) : given[i].kind = "WithGoVersion"
      /\ \E i \in 1 .. Len(given) : given[i].kind = "WithGithubWorkflows"
      /\ <<goModFile>> \in DOMAIN fsStart
      /\ Declared(fsStart[<<goModFile>>]) # {} )
    => \A i \in 1 .. Len(given) :
         given[i].kind = "WithGithubWorkflows" =>
            \A p \in WorkflowFiles(given[i].args) \ {<<".golangci.toml">>} :
                \A v \in RenderedVersions(fs[p]) :
                    Declared(fs[<<goModFile>>]) = {"go " \o v}

---------------------------------------------------------------------------

\* C19: when the template a generateTemplate call names is not embedded, the
\* run panics in generateTemplate with the output file of that call on disk,
\* holding the header of its category and nothing else, whatever it held
\* before; the calls the closure would have made after it are not made.
C19_HeaderOnlyOnMissingTemplate ==
    (pc = "panic" /\ panicVal[1] = "template: pattern matches no files: ") =>
        LET jobs == JobsOf(Last.op, AppValue)
            done == Len(Rendered(jobs, TRUE))
            bad == jobs[done + 1]
        IN  /\ raisedBy = "generateTemplate"
            /\ panicVal[2] = PathString(InputOf(bad))
            /\ OutputOf(bad) \in DOMAIN fs
            /\ fs[OutputOf(bad)] = <<warnings[bad.fileType]>>
            /\ \A i \in done + 2 .. Len(jobs) :
                    OutputOf(jobs[i]) \in DOMAIN fs =>
                        \/ OutputOf(jobs[i]) \in DOMAIN fsBefore
                              /\ fs[OutputOf(jobs[i])] = fsBefore[OutputOf(jobs[i])]
                        \/ \E j \in 1 .. done + 1 : OutputOf(jobs[j]) = OutputOf(jobs[i])

\* The "changelog" workflow has no template: its file held other text and is
\* left with the header only.
C19_Witness ==
    /\ pc = "panic"
    /\ panicVal = <<"template: pattern matches no files: ",
                    "templates/github_workflows/changelog.yml.tpl">>
    /\ <<".github", "workflows", "changelog.yml">> \in DOMAIN fsBefore
    /\ fsBefore[<<".github", "workflows", "changelog.yml">>] = StaleText
    /\ fs[<<".github", "workflows", "changelog.yml">>] = <<"# " \o warning>>

---------------------------------------------------------------------------

\* What the closures render is what settings holds when they are called.
SettingsRendered ==
    /\ ( /\ invoked # <<>>
         /\ Last.op.kind = "WithGithubWorkflows"
         /\ ~Last.failed )
       => \A p \in WorkflowFiles(Last.op.args) \ {<<".golangci.toml">>} :
            RenderedVersions(fs[p]) = {settings[goVersion]}
    /\ ( /\ invoked # <<>>
         /\ Last.op.kind = "WithMakefile"
         /\ ~Last.failed )
       => LET mk == fs[<<"Makefile">>]
          IN  /\ Positions(mk, "CGO_ENABLED=1 ") # {} <=> cgoEnabled \in DOMAIN settings
              /\ \A k \in Positions(mk, "go get -u ") :
                    /\ dependencies \in DOMAIN settings
                    /\ \E d \in 1 .. Len(settings[dependencies]) :
                            mk[k + 1] = settings[dependencies][d]
              /\ dependencies \in DOMAIN settings =>
                    \A d \in 1 .. Len(settings[dependencies]) :
                        Positions(mk, settings[dependencies][d]) # {}

\* C20: WithCGOEnabled, WithDependencies and WithGoVersion record their value
\* in settings when they are called, whether or not the closure they return is
\* kept for SetupApp; no step removes a key; from SetupApp on, no step of
\* Generate changes settings; and the closures Generate calls render what
\* settings holds, whatever the list is.
C20_EagerSettings ==
    /\ [][ /\ WithCGOEnabled =>
                cgoEnabled \in DOMAIN settings' /\ settings'[cgoEnabled] = TRUE
           /\ WithDependencies =>
                dependencies \in DOMAIN settings'
                    /\ settings'[dependencies] \in DependencyChoices
           /\ WithGoVersion =>
                goVersion \in DOMAIN settings' /\ settings'[goVersion] \in Versions
           /\ DOMAIN settings \subseteq DOMAIN settings'
           /\ pc # "build" => settings' = settings ]_vars
    /\ []SettingsRendered

\* Generate ran a list of WithMakefile only, and the Makefile carries the flag
\* and the dependencies of constructors whose closures were not listed.
C20_Witness ==
    /\ pc = "done"
    /\ Len(given) = 1
    /\ given[1].kind = "WithMakefile"
    /\ cgoEnabled \in DOMAIN settings
    /\ dependencies \in DOMAIN settings
    /\ Positions(fs[<<"Makefile">>], "CGO_ENABLED=1 ") # {}
    /\ Positions(fs[<<"Makefile">>], "x") # {}

---------------------------------------------------------------------------

\* C21: a WithGoVersion closure whose os.Stat of go.mod fails, because there
\* is no go.mod or for any other reason, returns nil and leaves go.mod and
\* every other file as they were; the closure fails exactly when go.mod is
\* there, the stat succeeds, and the read or the write that follows fails, and
\* then it returns the read or the write error, which Generate raises.
C21_StatFailureIsAbsence ==
    (invoked # <<>> /\ Last.op.kind = "WithGoVersion") =>
        LET there == <<goModFile>> \in DOMAIN fsBefore
            stage == IF Last.fault.path = <<goModFile>> THEN Last.fault.stage ELSE "none"
        IN  /\ (stage = "stat" \/ ~there) =>
                /\ ~Last.failed
                /\ pc # "panic"
                /\ reported = <<>>
                /\ fs = fsBefore
            /\ Last.failed <=> (there /\ stage \in {"read", "write"})
            /\ Last.failed =>
                /\ raisedBy = "Generate"
                /\ panicVal = reported
                /\ stage = "read" => reported[1] = "unable to read go.mod file ("
                /\ stage = "write" => reported[1] = "unable to write go.mod file ("

\* The stat of a go.mod that is there failed, and the closure returned nil
\* with go.mod as it was.
C21_Witness ==
    /\ invoked # <<>>
    /\ Last.op.kind = "WithGoVersion"
    /\ Last.fault = [stage |-> "stat", path |-> <<goModFile>>]
    /\ <<goModFile>> \in DOMAIN fsBefore
    /\ ~Last.failed
    /\ fs = fsBefore

====
